---- MODULE Spec2Model ----
(***************************************************************************)
(* Account, authorization and audit-log layer of the county recruitment    *)
(* system: accounts/models.py, accounts/forms.py, accounts/views.py,       *)
(* core/decorators.py and core/views.py.                                   *)
(*                                                                         *)
(* The database rows (users, groups, memberships, audit log), the browser  *)
(* sessions and the last HTTP response are the state.  Every view is one   *)
(* action taking the request's inputs; the framework calls the views make  *)
(* (authenticate, login, logout, login_required, ModelForm validation) are *)
(* modelled with Django's stock behaviour: ModelBackend, which refuses     *)
(* inactive users both in authenticate() and in get_user().                *)
(***************************************************************************)
EXTENDS Integers, Sequences, FiniteSets, TLC

VARIABLES
    users,        \* User table: sequence of rows, row i has primary key i
    groups,       \* auth Group table: set of group names
    user_groups,  \* User.groups many-to-many: set of <<user id, group name>>
    log,          \* UserActivityLog table in insertion order
    session,      \* per browser: the user id bound to its session, 0 if none
    now,          \* the clock read by date_joined / auto_now_add
    pending,      \* per browser: a registration form that passed is_valid()
                  \* and has not yet been saved (interleaved requests only)
    toggling,     \* per browser: a toggle the guard has admitted and whose
                  \* view body has not yet run (interleaved requests only)
    audit_up,     \* whether the store accepts INSERTs into the audit table
    resp          \* the last request's kind and its HTTP response

vars ==
    <<users, groups, user_groups, log, session, now, pending, toggling,
      audit_up, resp>>

----------------------------------------------------------------------------
(* Bounds and input samples *)

MaxLog == 5

(* Two registrations, two logins and two toggles fit in the audit table *)
(* of the interleaved toggles *)
MaxLogRace == MaxLog + 1

Clients == {"c1", "c2"}
Methods == {"GET", "POST"}
Emails == {"amani@savanna.ke", "joy@savanna.ke"}
Passwords == {"s3cret", "wrong"}
NatIdInputs == {"1234567", "12345678", "12A4567", "123456", "123456789"}
PhoneInputs == {"0712 345-678", "12345", "0712345678901"}
RoleInputs == {"INITIATOR", "CPSB_SECRETARIAT", "HR_ADMIN", "APPLICANT"}
FirstNames == {"Amani"}
SearchInputs == {"", "joy"}
RoleFilters == {"", "HR_ADMIN"}

(* The characters of each sample string. *)
Str(s) ==
    CASE s = "1234567" -> <<"1", "2", "3", "4", "5", "6", "7">>
      [] s = "12345678" -> <<"1", "2", "3", "4", "5", "6", "7", "8">>
      [] s = "12A4567" -> <<"1", "2", "A", "4", "5", "6", "7">>
      [] s = "123456" -> <<"1", "2", "3", "4", "5", "6">>
      [] s = "0712 345-678" ->
            <<"0", "7", "1", "2", " ", "3", "4", "5", "-", "6", "7", "8">>
      [] s = "12345" -> <<"1", "2", "3", "4", "5">>
      [] s = "123456789" -> <<"1", "2", "3", "4", "5", "6", "7", "8", "9">>
      [] s = "0712345678901" ->
            <<"0", "7", "1", "2", "3", "4", "5", "6", "7", "8", "9", "0", "1">>
      [] s = "joy" -> <<"j", "o", "y">>
      [] s = "Amani" -> <<"A", "m", "a", "n", "i">>
      [] s = "amani@savanna.ke" ->
            <<"a", "m", "a", "n", "i", "@", "s", "a", "v", "a", "n", "n", "a",
              ".", "k", "e">>
      [] s = "joy@savanna.ke" ->
            <<"j", "o", "y", "@", "s", "a", "v", "a", "n", "n", "a", ".", "k",
              "e">>
      [] OTHER -> <<>>

Digits == {"0", "1", "2", "3", "4", "5", "6", "7", "8", "9"}

----------------------------------------------------------------------------
(* str helpers used by the forms *)

isdigit(cs) == Len(cs) > 0 /\ \A i \in 1..Len(cs) : cs[i] \in Digits

IsNotSpace(ch) == ch # " "
IsNotHyphen(ch) == ch # "-"
IsDigitChar(ch) == ch \in Digits

startswith(cs, prefix) ==
    Len(cs) >= Len(prefix) /\ SubSeq(cs, 1, Len(prefix)) = prefix

(* phone.replace(' ', '').replace('-', '') *)
StripPhone(cs) == SelectSeq(SelectSeq(cs, IsNotSpace), IsNotHyphen)

(* RegexValidator(r'^\d{7,8}$') on User.national_id *)
NationalIdRegex(cs) == isdigit(cs) /\ Len(cs) >= 7 /\ Len(cs) <= 8

(* RegexValidator(r'^\+?1?\d{9,15}$') on User.phone_number *)
PhoneRegex(cs) ==
    LET a == IF Len(cs) > 0 /\ cs[1] = "+" THEN Tail(cs) ELSE cs
        Tails == {a} \cup (IF Len(a) > 0 /\ a[1] = "1" THEN {Tail(a)} ELSE {})
    IN  \E t \in Tails : isdigit(t) /\ Len(t) >= 9 /\ Len(t) <= 15

----------------------------------------------------------------------------
(* accounts/models.py *)

ROLE_CHOICES ==
    {"INITIATOR", "CHIEF_OFFICER", "COUNTY_SECRETARY", "CPSB_BOARD",
     "CPSB_SECRETARIAT", "HR_SECRETARIAT", "HR_ADMIN", "PANELIST",
     "PAYROLL_OFFICER"}

(* Mutant: the table is keyed by the role's display label, so no role is *)
(* found in it *)
get_role_group_by_label(role) == "Applicants"

get_role_group(role) ==
    CASE role = "INITIATOR" -> "Initiators"
      [] role = "CHIEF_OFFICER" -> "Chief Officers"
      [] role = "COUNTY_SECRETARY" -> "County Secretaries"
      [] role = "CPSB_BOARD" -> "CPSB Board"
      [] role = "CPSB_SECRETARIAT" -> "CPSB Secretariat"
      [] role = "HR_SECRETARIAT" -> "HR Secretariat"
      [] role = "HR_ADMIN" -> "HR Administrators"
      [] role = "PANELIST" -> "Panelists"
      [] role = "PAYROLL_OFFICER" -> "Payroll Officers"
      [] OTHER -> "Applicants"

(* set_password / check_password: the stored value is a hash of the raw one *)
make_password(raw) == <<"pbkdf2", raw>>
check_password(raw, stored) == stored = make_password(raw)

(* User.save(): an employee id is generated only when the row has none *)
GenEmployeeId(suffix) == <<"SAV", suffix>>

UserIds == 1..Len(users)

(* The unique=True columns of User, enforced by the store on INSERT *)
UniqueViolation(row) ==
    \E i \in UserIds :
        \/ users[i].email = row.email
        \/ users[i].national_id = row.national_id
        \/ users[i].employee_id = row.employee_id

(* Mutant: update_or_create keyed by user and action *)
CreateLogOrUpdate(uid, action, data, t) ==
    LET row == [user |-> uid, action |-> action, timestamp |-> t,
                data |-> data]
        old == {k \in 1..Len(log) :
                    log[k].user = uid /\ log[k].action = action}
    IN  IF old = {} THEN Append(log, row)
        ELSE [log EXCEPT ![CHOOSE k \in old : TRUE] = row]

(* UserActivityLog.objects.create(...): one more row; timestamp is *)
(* auto_now_add, the clock reading t at the INSERT                 *)
CreateLog(uid, action, data, t) ==
    Append(log, [user |-> uid, action |-> action, timestamp |-> t,
                 data |-> data])

----------------------------------------------------------------------------
(* Requests and responses *)

NoForm == [email |-> "", national_id |-> "", phone_number |-> "", role |-> "",
           first_name |-> "", password1 |-> "", password2 |-> ""]

Form(email, national_id, phone, role, password2) ==
    [email |-> email, national_id |-> national_id, phone_number |-> phone,
     role |-> role, first_name |-> "Amani", password1 |-> "s3cret",
     password2 |-> password2]

(* Well-formed forms (they may still collide with a stored user): two  *)
(* people, and a third form with the email of one and the national ID of *)
(* the other                                                             *)
ValidForms ==
    {Form("amani@savanna.ke", "1234567", "0712 345-678", r, "s3cret") :
        r \in {"HR_ADMIN", "INITIATOR"}}
    \cup {Form("joy@savanna.ke", "12345678", "0712 345-678", r, "s3cret") :
        r \in {"CPSB_SECRETARIAT", "INITIATOR"}}
    \cup {Form("joy@savanna.ke", "1234567", "0712 345-678", "INITIATOR",
               "s3cret")}

(* Forms with one malformed field each *)
FaultyForms ==
    {Form("joy@savanna.ke", "12A4567", "0712 345-678", "INITIATOR", "s3cret"),
     Form("joy@savanna.ke", "123456", "0712 345-678", "INITIATOR", "s3cret"),
     Form("joy@savanna.ke", "123456789", "0712 345-678", "INITIATOR",
          "s3cret"),
     Form("joy@savanna.ke", "12345678", "12345", "INITIATOR", "s3cret"),
     Form("joy@savanna.ke", "12345678", "0712 345-678", "APPLICANT", "s3cret"),
     Form("joy@savanna.ke", "12345678", "0712 345-678", "INITIATOR", "wrong")}

RegisterForms == ValidForms \cup FaultyForms

Response(op, c, status, target, messages, errors, ran) ==
    [op |-> op, status |-> status, target |-> target,
     messages |-> messages, errors |-> errors, ran |-> ran,
     listing |-> <<>>, activities |-> <<>>, context |-> {}]

Redirect(op, c, target, messages, ran) ==
    Response(op, c, "redirect", target, messages, {}, ran)

Render(op, c, template, messages, errors) ==
    Response(op, c, "render", template, messages, errors, TRUE)

(* An exception no view catches: the framework answers 500 *)
ServerError(op, c, exception) ==
    Response(op, c, "server_error", exception, {}, {}, TRUE)

----------------------------------------------------------------------------
(* Framework: request.user, authenticate, the guards *)

(* request.user: the session's user as the auth backend loads it; a session *)
(* whose account is no longer active resolves to the anonymous user (0)     *)
RequestUser(c) ==
    IF session[c] # 0 /\ users[session[c]].is_active THEN session[c] ELSE 0

is_authenticated(c) == RequestUser(c) # 0

(* Mutant: the password is not verified *)
authenticate_any_password(us, email, password) ==
    LET hits == {i \in 1..Len(us) : us[i].email = email /\ us[i].is_active}
    IN  IF hits = {} THEN 0 ELSE CHOOSE i \in hits : TRUE

(* authenticate(request, username=email, password=password) against the *)
(* user table us: the matching active user's id, or 0 for None           *)
authenticate(us, email, password) ==
    LET hits == {i \in 1..Len(us) :
                    /\ us[i].email = email
                    /\ check_password(password, us[i].password)
                    /\ us[i].is_active}
    IN  IF hits = {} THEN 0 ELSE CHOOSE i \in hits : TRUE

(* AuthenticationForm.confirm_login_allowed *)
confirm_login_allowed(us, uid) ==
    IF us[uid].is_active THEN {} ELSE {<<"__all__", "inactive">>}

(* core/decorators.py role_required, under @login_required *)
AdminRoles == {"HR_ADMIN", "CPSB_SECRETARIAT"}

(* Mutant: any logged-in user passes *)
role_required_any_role(c, allowed_roles) ==
    IF ~is_authenticated(c) THEN "login" ELSE "allow"

role_required(c, allowed_roles) ==
    IF ~is_authenticated(c) THEN "login"
    ELSE IF users[RequestUser(c)].role \in allowed_roles THEN "allow"
    ELSE "denied"

PermissionDenied == "You do not have permission to access this page."

GuardResponse(op, c, verdict) ==
    IF verdict = "login"
    THEN Redirect(op, c, "accounts:login", {}, FALSE)
    ELSE Redirect(op, c, "core:dashboard", {PermissionDenied}, FALSE)

----------------------------------------------------------------------------
(* accounts/forms.py *)

(* Mutant: the existence check is missing *)
clean_email_unchecked(form) == {}

clean_email(form) ==
    IF form.email # "" /\ \E i \in UserIds : users[i].email = form.email
    THEN {<<"email", "exists">>}
    ELSE {}

(* Mutant: only the existence check is made *)
clean_national_id_exists_only(form) ==
    IF \E i \in UserIds : users[i].national_id = form.national_id
    THEN {<<"national_id", "exists">>}
    ELSE {}

clean_national_id(form) ==
    LET national_id == Str(form.national_id)
    IN  IF Len(national_id) > 0
           /\ \E i \in UserIds : users[i].national_id = form.national_id
        THEN {<<"national_id", "exists">>}
        ELSE IF Len(national_id) > 0 /\ ~isdigit(national_id)
        THEN {<<"national_id", "digits">>}
        ELSE IF Len(national_id) > 0
                /\ (Len(national_id) < 7 \/ Len(national_id) > 8)
        THEN {<<"national_id", "length">>}
        ELSE IF ~NationalIdRegex(national_id)
        THEN {<<"national_id", "invalid">>}
        ELSE {}

(* CustomUserCreationForm.clean_phone_number, then the model field's regex *)
clean_phone_number(form) ==
    LET phone == StripPhone(Str(form.phone_number))
        digits_only == SelectSeq(phone, IsDigitChar)
    IN  IF Len(phone) = 0 THEN {<<"phone_number", "required">>}
        ELSE IF ~(\/ startswith(phone, <<"+", "2", "5", "4">>)
                  \/ startswith(phone, <<"2", "5", "4">>)
                  \/ startswith(phone, <<"0", "7">>)
                  \/ startswith(phone, <<"0", "1">>))
        THEN {<<"phone_number", "format">>}
        ELSE IF Len(digits_only) < 9 \/ Len(digits_only) > 12
        THEN {<<"phone_number", "length">>}
        ELSE IF ~PhoneRegex(phone)
        THEN {<<"phone_number", "invalid">>}
        ELSE {}

(* UserProfileForm.clean_phone_number, then the model field's regex *)
profile_clean_phone_number(raw) ==
    LET phone == StripPhone(Str(raw))
    IN  IF Len(phone) = 0 THEN {<<"phone_number", "required">>}
        ELSE IF ~(\/ startswith(phone, <<"+", "2", "5", "4">>)
                  \/ startswith(phone, <<"2", "5", "4">>)
                  \/ startswith(phone, <<"0", "7">>)
                  \/ startswith(phone, <<"0", "1">>))
        THEN {<<"phone_number", "format">>}
        ELSE IF ~PhoneRegex(phone)
        THEN {<<"phone_number", "invalid">>}
        ELSE {}

clean_role(form) ==
    IF form.role \in ROLE_CHOICES THEN {} ELSE {<<"role", "invalid_choice">>}

clean_password2(form) ==
    IF form.password1 = form.password2 THEN {}
    ELSE {<<"password2", "password_mismatch">>}

(* CustomUserCreationForm.is_valid(): the errors of every field *)
RegisterErrors(form) ==
    clean_email(form) \cup clean_national_id(form)
        \cup clean_phone_number(form) \cup clean_role(form)
        \cup clean_password2(form)

(* Mutant: an unknown email gets an error of its own *)
AuthFormCleanRevealing(us, email, password) ==
    IF \A i \in 1..Len(us) : us[i].email # email
    THEN {<<"username", "unknown_email">>}
    ELSE IF authenticate(us, email, password) = 0
    THEN {<<"__all__", "invalid_login">>}
    ELSE {}

(* CustomAuthenticationForm.clean(): the form's errors *)
AuthFormClean(us, email, password) ==
    LET user_cache == authenticate(us, email, password)
    IN  IF email # "" /\ password # ""
        THEN IF user_cache = 0
             THEN {<<"__all__", "invalid_login">>}
             ELSE confirm_login_allowed(us, user_cache)
        ELSE {<<"username", "required">>}

----------------------------------------------------------------------------
(* accounts/views.py: register_view *)

NewUserRow(form, suffix) ==
    [email |-> form.email,
     password |-> make_password(form.password1),
     first_name |-> form.first_name,
     national_id |-> form.national_id,
     phone_number |-> StripPhone(Str(form.phone_number)),
     role |-> form.role,
     employee_id |-> GenEmployeeId(suffix),
     is_active |-> TRUE,
     date_joined |-> now + 1]

(* form.save() and what follows it in register_view: the INSERT (the store *)
(* checks the unique columns), the group, the audit entry, the redirect.   *)
(* With the audit table down the audit INSERT raises.                       *)
SaveRegistration(c, form, suffix) ==
    LET row == NewUserRow(form, suffix)
        uid == Len(users) + 1
        group_name == get_role_group(row.role)
    IN  IF UniqueViolation(row)
        THEN /\ resp' = ServerError("register", c, "IntegrityError")
             /\ UNCHANGED <<users, groups, user_groups, log, now>>
        ELSE /\ Len(log) < MaxLog
             /\ users' = Append(users, row)
             /\ groups' = groups \cup {group_name}
             /\ user_groups' = user_groups \cup {<<uid, group_name>>}
             /\ IF ~audit_up
                THEN /\ now' = now + 1
                     /\ UNCHANGED log
                     /\ resp' = ServerError("register", c, "DatabaseError")
                ELSE /\ now' = now + 2
                     /\ log' = CreateLog(uid, "USER_REGISTERED",
                                          {<<"role", row.role>>}, now + 2)
                     /\ resp' = Redirect("register", c, "accounts:login",
                                    {"Registration successful! Please login."},
                                    TRUE)

Register(c, method, form, suffix) ==
    /\ pending[c] = NoForm
    /\ UNCHANGED <<session, pending, toggling, audit_up>>
    /\ IF is_authenticated(c)
       THEN /\ resp' = Redirect("register", c, "core:dashboard", {}, FALSE)
            /\ UNCHANGED <<users, groups, user_groups, log, now>>
       ELSE IF method = "POST"
       THEN IF RegisterErrors(form) = {}
            THEN SaveRegistration(c, form, suffix)
            ELSE /\ resp' = Render("register", c, "accounts/register.html",
                                   {}, RegisterErrors(form))
                 /\ UNCHANGED <<users, groups, user_groups, log, now>>
       ELSE /\ resp' = Render("register", c, "accounts/register.html", {}, {})
            /\ UNCHANGED <<users, groups, user_groups, log, now>>

(* Two registrations in flight: is_valid() of one request, then, after     *)
(* other requests may have run, its form.save() and the rest of the view.  *)
RegisterValidate(c, form) ==
    /\ pending[c] = NoForm
    /\ ~is_authenticated(c)
    /\ RegisterErrors(form) = {}
    /\ pending' = [pending EXCEPT ![c] = form]
    /\ UNCHANGED <<users, groups, user_groups, log, session, now, toggling,
                   audit_up, resp>>

RegisterSave(c, suffix) ==
    /\ pending[c] # NoForm
    /\ pending' = [pending EXCEPT ![c] = NoForm]
    /\ SaveRegistration(c, pending[c], suffix)
    /\ UNCHANGED <<session, toggling, audit_up>>

----------------------------------------------------------------------------
(* accounts/views.py: login_view, logout_view, profile_view *)

LoginRedirect(role) ==
    CASE role = "INITIATOR" -> "requisitions:create"
      [] role = "CHIEF_OFFICER" -> "requisitions:pending_approvals"
      [] role = "COUNTY_SECRETARY" -> "requisitions:pending_endorsements"
      [] role = "CPSB_BOARD" -> "requisitions:board_approvals"
      [] role = "HR_SECRETARIAT" -> "candidates:shortlist"
      [] OTHER -> "core:dashboard"

InvalidLoginMessage == "Invalid email or password."

(* What a POST to login from an anonymous browser comes to, given the user *)
(* table us: the form's errors, the flash messages of the view, and the   *)
(* user logged in (0: none)                                               *)
LoginOutcome(us, email, password) ==
    LET errors == AuthFormClean(us, email, password)
        user == authenticate(us, email, password)
    IN  IF errors # {}
        THEN [user |-> 0, errors |-> errors,
              messages |-> {InvalidLoginMessage}]
        ELSE IF user # 0
        THEN [user |-> user, errors |-> {}, messages |-> {"Welcome back"}]
        ELSE [user |-> 0, errors |-> {}, messages |-> {}]

Login(c, method, email, password) ==
    /\ UNCHANGED <<users, groups, user_groups, pending, toggling, audit_up>>
    /\ IF is_authenticated(c)
       THEN /\ resp' = Redirect("login", c, "core:dashboard", {}, FALSE)
            /\ UNCHANGED <<log, session, now>>
       ELSE IF method = "POST"
       THEN LET out == LoginOutcome(users, email, password)
            IN  IF out.user # 0
                THEN /\ Len(log) < MaxLog
                     /\ IF ~audit_up
                        THEN \* the 500 response saves no session
                             /\ resp' = ServerError("login", c, "DatabaseError")
                             /\ UNCHANGED <<log, session, now>>
                        ELSE /\ session' = [session EXCEPT ![c] = out.user]
                             /\ log' = CreateLog(out.user, "USER_LOGIN", {},
                                                 now + 1)
                             /\ now' = now + 1
                             /\ resp' = Redirect("login", c,
                                            LoginRedirect(users[out.user].role),
                                            out.messages, TRUE)
                ELSE /\ resp' = Render("login", c, "accounts/login.html",
                                       out.messages, out.errors)
                     /\ UNCHANGED <<log, session, now>>
       ELSE /\ resp' = Render("login", c, "accounts/login.html", {}, {})
            /\ UNCHANGED <<log, session, now>>

Logout(c) ==
    /\ UNCHANGED <<users, groups, user_groups, pending, toggling, audit_up>>
    /\ IF ~is_authenticated(c)
       THEN /\ resp' = Redirect("logout", c, "accounts:login", {}, FALSE)
            /\ UNCHANGED <<log, session, now>>
       ELSE /\ Len(log) < MaxLog
            /\ IF ~audit_up
               THEN /\ resp' = ServerError("logout", c, "DatabaseError")
                    /\ UNCHANGED <<log, session, now>>
               ELSE /\ log' = CreateLog(RequestUser(c), "USER_LOGOUT", {},
                                         now + 1)
                    /\ now' = now + 1
                    /\ session' = [session EXCEPT ![c] = 0]
                    /\ resp' = Redirect("logout", c, "accounts:login",
                            {"You have been successfully logged out."}, TRUE)

ProfileErrors(first_name, phone) ==
    (IF first_name = "" THEN {<<"first_name", "required">>} ELSE {})
        \cup profile_clean_phone_number(phone)

Profile(c, method, first_name, phone) ==
    /\ UNCHANGED <<groups, user_groups, session, pending, toggling, audit_up>>
    /\ IF ~is_authenticated(c)
       THEN /\ resp' = Redirect("profile", c, "accounts:login", {}, FALSE)
            /\ UNCHANGED <<users, log, now>>
       ELSE IF method = "POST"
       THEN IF ProfileErrors(first_name, phone) = {}
            THEN /\ Len(log) < MaxLog
                 /\ users' = [users EXCEPT ![RequestUser(c)] =
                        [@ EXCEPT !.first_name = first_name,
                                  !.phone_number = StripPhone(Str(phone))]]
                 /\ IF ~audit_up
                    THEN /\ resp' = ServerError("profile", c, "DatabaseError")
                         /\ UNCHANGED <<log, now>>
                    ELSE /\ log' = CreateLog(RequestUser(c),
                                              "PROFILE_UPDATED", {}, now + 1)
                         /\ now' = now + 1
                         /\ resp' = Redirect("profile", c, "accounts:profile",
                                      {"Profile updated successfully!"}, TRUE)
            ELSE /\ resp' = Render("profile", c, "accounts/profile.html", {},
                                   ProfileErrors(first_name, phone))
                 /\ UNCHANGED <<users, log, now>>
       ELSE /\ resp' = Render("profile", c, "accounts/profile.html", {}, {})
            /\ UNCHANGED <<users, log, now>>

----------------------------------------------------------------------------
(* accounts/views.py: user_management_view, toggle_user_active *)

(* order_by('-date_joined') over the rows with ids in S *)
RECURSIVE OrderByDateJoinedDesc(_)
OrderByDateJoinedDesc(S) ==
    IF S = {} THEN <<>>
    ELSE LET first == CHOOSE i \in S :
                        \A j \in S : users[j].date_joined <= users[i].date_joined
         IN  <<first>> \o OrderByDateJoinedDesc(S \ {first})

UserManagement(c, role_filter, search) ==
    /\ UNCHANGED <<users, groups, user_groups, log, session, now, pending, toggling,
                   audit_up>>
    /\ LET verdict == role_required(c, AdminRoles)
           matching == {i \in UserIds :
                            role_filter = "" \/ users[i].role = role_filter}
       IN  IF verdict # "allow"
           THEN resp' = GuardResponse("user_management", c, verdict)
           ELSE IF search # ""
           THEN \* models.Q: the module never imports django.db.models
                resp' = ServerError("user_management", c, "NameError")
           ELSE resp' = [Render("user_management", c,
                                "accounts/user_management.html", {}, {})
                         EXCEPT !.listing = OrderByDateJoinedDesc(matching)]

TargetIds == 1..(Cardinality(Emails) + 1)

(* Mutant: the self check is missing *)
IsSelfNever(actor, user_id) == FALSE

(* if user == request.user *)
IsSelf(actor, user_id) == user_id = actor

(* Mutant: the flag is cleared, not flipped *)
ToggledDeactivateOnly(user) == [user EXCEPT !.is_active = FALSE]

(* user.is_active = not user.is_active *)
Toggled(user) == [user EXCEPT !.is_active = ~@]

(* The body of toggle_user_active for a POST, run for the request.user the *)
(* guard saw; max_log caps the audit table                                *)
TogglePost(c, actor, user_id, max_log) ==
    LET user == Toggled(users[user_id])
        action == IF user.is_active THEN "USER_ACTIVATED"
                  ELSE "USER_DEACTIVATED"
        flash == IF user.is_active
                 THEN "User activated successfully!"
                 ELSE "User deactivated successfully!"
    IN  IF user_id \notin UserIds
        THEN /\ resp' = Redirect("toggle", c, "accounts:user_management",
                                 {"User not found."}, TRUE)
             /\ UNCHANGED <<users, log, now>>
        ELSE IF IsSelf(actor, user_id)
        THEN /\ resp' = Redirect("toggle", c, "accounts:user_management",
                         {"You cannot deactivate your own account!"}, TRUE)
             /\ UNCHANGED <<users, log, now>>
        ELSE /\ Len(log) < max_log
             /\ users' = [users EXCEPT ![user_id] = user]
             /\ IF ~audit_up
                THEN /\ resp' = ServerError("toggle", c, "DatabaseError")
                     /\ UNCHANGED <<log, now>>
                ELSE /\ log' = CreateLog(actor, action,
                           {<<"target_user", user.email>>}, now + 1)
                     /\ now' = now + 1
                     /\ resp' = Redirect("toggle", c,
                                  "accounts:user_management", {flash}, TRUE)

ToggleUserActive(c, method, user_id) ==
    /\ UNCHANGED <<groups, user_groups, session, pending, toggling, audit_up>>
    /\ LET verdict == role_required(c, AdminRoles)
       IN  IF verdict # "allow"
           THEN /\ resp' = GuardResponse("toggle", c, verdict)
                /\ UNCHANGED <<users, log, now>>
           ELSE IF method # "POST"
           THEN /\ resp' = Redirect("toggle", c, "accounts:user_management",
                                    {}, TRUE)
                /\ UNCHANGED <<users, log, now>>
           ELSE TogglePost(c, RequestUser(c), user_id, MaxLog)

(* No toggle in progress *)
NoToggle == [actor |-> 0, target |-> 0]

(* Two toggles in flight: the guards of one POST (request.user is loaded   *)
(* and checked once), then, after other requests may have run, its body.   *)
ToggleAdmit(c, user_id) ==
    /\ toggling[c] = NoToggle
    /\ role_required(c, AdminRoles) = "allow"
    /\ toggling' = [toggling EXCEPT
                       ![c] = [actor |-> RequestUser(c), target |-> user_id]]
    /\ UNCHANGED <<users, groups, user_groups, log, session, now, pending,
                   audit_up, resp>>

ToggleCommit(c) ==
    /\ toggling[c] # NoToggle
    /\ toggling' = [toggling EXCEPT ![c] = NoToggle]
    /\ TogglePost(c, toggling[c].actor, toggling[c].target, MaxLogRace)
    /\ UNCHANGED <<groups, user_groups, session, pending, audit_up>>

----------------------------------------------------------------------------
(* core/views.py: dashboard_view, activity_log_view *)

(* The context keys each role's branch adds to the dashboard *)
DashboardContext(role) ==
    {"user", "today"} \cup
    (CASE role = "INITIATOR" ->
            {"my_requisitions", "pending_approvals", "approved_requisitions"}
       [] role = "CHIEF_OFFICER" ->
            {"pending_reviews", "recent_approvals", "budget_utilization"}
       [] role = "COUNTY_SECRETARY" ->
            {"pending_endorsements", "recent_endorsements",
             "total_hires_this_year"}
       [] role = "CPSB_BOARD" -> {"pending_board_items", "recent_approvals"}
       [] role \in {"HR_SECRETARIAT", "HR_ADMIN"} ->
            {"active_requisitions", "total_applications", "shortlisted_count",
             "interview_count", "recent_candidates"}
       [] OTHER -> {})

Dashboard(c) ==
    /\ UNCHANGED <<users, groups, user_groups, log, session, now, pending, toggling,
                   audit_up>>
    /\ IF ~is_authenticated(c)
       THEN resp' = Redirect("dashboard", c, "accounts:login", {}, FALSE)
       ELSE resp' = [Render("dashboard", c, "core/dashboard.html", {}, {})
                     EXCEPT !.context =
                        DashboardContext(users[RequestUser(c)].role)]

ActivityLimit == 50

RECURSIVE Reverse(_)
Reverse(q) == IF q = <<>> THEN <<>> ELSE Append(Reverse(Tail(q)), Head(q))

(* filter(user=request.user).order_by('-timestamp')[:50] *)
Activities(uid) ==
    LET mine == Reverse(SelectSeq(log, LAMBDA e : e.user = uid))
    IN  SubSeq(mine, 1, IF Len(mine) < ActivityLimit THEN Len(mine)
                        ELSE ActivityLimit)

ActivityLog(c) ==
    /\ UNCHANGED <<users, groups, user_groups, log, session, now, pending, toggling,
                   audit_up>>
    /\ IF ~is_authenticated(c)
       THEN resp' = Redirect("activity_log", c, "accounts:login", {}, FALSE)
       ELSE resp' = [Render("activity_log", c, "core/activity_log.html", {}, {})
                     EXCEPT !.activities = Activities(RequestUser(c))]

----------------------------------------------------------------------------
(* The system *)

NoResponse == Response("none", "c1", "none", "", {}, {}, FALSE)


Init ==
    /\ users = <<>>
    /\ groups = {}
    /\ user_groups = {}
    /\ log = <<>>
    /\ session = [c \in Clients |-> 0]
    /\ now = 0
    /\ pending = [c \in Clients |-> NoForm]
    /\ toggling = [c \in Clients |-> NoToggle]
    /\ audit_up = TRUE
    /\ resp = NoResponse

(* random.randint(1000, 9999): a number some stored user already has, or a *)
(* fresh one (which fresh one makes no difference: the least is taken)    *)
EmpSuffixes ==
    {users[i].employee_id[2] : i \in UserIds} \cup {1000 + Len(users)}

(* Requests served one at a time *)
Next ==
    \/ \E c \in Clients, f \in ValidForms, n \in EmpSuffixes :
          Register(c, "POST", f, n)
    \/ \E c \in Clients, f \in FaultyForms : Register(c, "POST", f, 1000)
    \/ \E c \in Clients : Register(c, "GET", NoForm, 1000)
    \/ \E c \in Clients, e \in Emails, p \in Passwords :
          Login(c, "POST", e, p)
    \/ \E c \in Clients : Login(c, "GET", "", "")
    \/ \E c \in Clients : Logout(c)
    \/ \E c \in Clients, f \in FirstNames, p \in PhoneInputs :
          Profile(c, "POST", f, p)
    \/ \E c \in Clients : Profile(c, "GET", "", "")
    \/ \E c \in Clients, r \in RoleFilters, q \in SearchInputs :
          UserManagement(c, r, q)
    \/ \E c \in Clients, m \in Methods, i \in TargetIds :
          ToggleUserActive(c, m, i)
    \/ \E c \in Clients : Dashboard(c)
    \/ \E c \in Clients : ActivityLog(c)

Spec == Init /\ [][Next]_vars

(* The store stops accepting INSERTs into the audit table *)
AuditStoreFails ==
    /\ audit_up
    /\ audit_up' = FALSE
    /\ UNCHANGED <<users, groups, user_groups, log, session, now, pending,
                   toggling, resp>>

(* Requests served one at a time; the audit table may go down *)
NextFault ==
    \/ Next
    \/ AuditStoreFails

FaultSpec == Init /\ [][NextFault]_vars

(* Registration requests whose is_valid() and save() may interleave *)
NextConc ==
    \/ \E c \in Clients, f \in RegisterForms, n \in EmpSuffixes :
          Register(c, "POST", f, n)
    \/ \E c \in Clients, f \in ValidForms : RegisterValidate(c, f)
    \/ \E c \in Clients, n \in EmpSuffixes : RegisterSave(c, n)

ConcSpec == Init /\ [][NextConc]_vars

(* Toggle requests whose guards and body may interleave *)
NextRace ==
    \/ \E c \in Clients, f \in ValidForms, n \in EmpSuffixes :
          Register(c, "POST", f, n)
    \/ \E c \in Clients, e \in Emails : Login(c, "POST", e, "s3cret")
    \/ \E c \in Clients, i \in TargetIds : ToggleAdmit(c, i)
    \/ \E c \in Clients : ToggleCommit(c)

RaceSpec == Init /\ [][NextRace]_vars

----------------------------------------------------------------------------
(* Properties *)

StoreUnchanged ==
    /\ users' = users
    /\ groups' = groups
    /\ user_groups' = user_groups
    /\ log' = log

(* What the guard of the two admin views must have done in a step that *)
(* served browser c *)
GuardedFor(c) ==
    /\ ~is_authenticated(c) =>
          /\ resp'.status = "redirect"
          /\ resp'.target = "accounts:login"
          /\ ~resp'.ran
          /\ StoreUnchanged
    /\ (is_authenticated(c) /\ users[RequestUser(c)].role \notin
                                  {"HR_ADMIN", "CPSB_SECRETARIAT"}) =>
          /\ resp'.status = "redirect"
          /\ resp'.target = "core:dashboard"
          /\ PermissionDenied \in resp'.messages
          /\ ~resp'.ran
          /\ StoreUnchanged
    /\ resp'.ran =>
          /\ is_authenticated(c)
          /\ users[RequestUser(c)].role \in {"HR_ADMIN", "CPSB_SECRETARIAT"}

(* C1: the user listing and the activation toggle run their body only for *)
(* an authenticated caller whose role is HR_ADMIN or CPSB_SECRETARIAT; an *)
(* unauthenticated caller is redirected to login and any other role to    *)
(* the dashboard with the permission notice, whatever the query           *)
(* parameters, and a denied request changes no user row and no audit row. *)
C1_AdminViewsGuarded ==
    [][\A c \in Clients :
          /\ resp'.op = "user_management" =>
                \A r \in RoleFilters, q \in SearchInputs :
                    UserManagement(c, r, q) => GuardedFor(c)
          /\ resp'.op = "toggle" =>
                \A m \in Methods, i \in TargetIds :
                    ToggleUserActive(c, m, i) => GuardedFor(c)]_vars

(* An INITIATOR is logged in and the last request, to the user listing, *)
(* was turned away to the dashboard with the permission notice          *)
C1_Witness ==
    /\ resp.op = "user_management"
    /\ resp.target = "core:dashboard"
    /\ PermissionDenied \in resp.messages
    /\ \E c \in Clients :
          is_authenticated(c) /\ users[RequestUser(c)].role = "INITIATOR"
    /\ \E c \in Clients : ~is_authenticated(c)

(* C2: a toggle that an allowed administrator sends for their own account *)
(* changes nothing (the is_active flag keeps its value, no audit entry is *)
(* added), and the POST is answered with the explicit error message.      *)
C2_SelfToggleRejected ==
    [][\A c \in Clients, m \in Methods, i \in TargetIds :
          (/\ resp'.op = "toggle"
           /\ is_authenticated(c)
           /\ users[RequestUser(c)].role \in {"HR_ADMIN", "CPSB_SECRETARIAT"}
           /\ i = RequestUser(c)
           /\ ToggleUserActive(c, m, i)) =>
              /\ users' = users
              /\ log' = log
              /\ m = "POST" =>
                    /\ resp'.status = "redirect"
                    /\ resp'.messages =
                          {"You cannot deactivate your own account!"}]_vars

(* An administrator is logged in, still active, and was just refused the *)
(* toggle of their own account                                           *)
C2_Witness ==
    /\ resp.op = "toggle"
    /\ resp.messages = {"You cannot deactivate your own account!"}
    /\ \E c \in Clients :
          /\ is_authenticated(c)
          /\ users[RequestUser(c)].role = "HR_ADMIN"
          /\ users[RequestUser(c)].is_active

(* The stored users with this email and password whose account is not *)
(* active / is active *)
InactiveOwners(e, p) ==
    {i \in UserIds : /\ users[i].email = e
                     /\ users[i].password = make_password(p)
                     /\ ~users[i].is_active}

ActiveOwners(e, p) ==
    {i \in UserIds : /\ users[i].email = e
                     /\ users[i].password = make_password(p)
                     /\ users[i].is_active}

(* C3: a login with the correct email and password of an inactive account *)
(* establishes no session, records no USER_LOGIN entry, and is answered   *)
(* with the 'inactive' error of the login-allowed check, not with the     *)
(* invalid-credentials error.                                             *)
C3_InactiveLoginDistinctError ==
    [][resp'.op = "login" =>
          \A c \in Clients, e \in Emails, p \in Passwords :
             (/\ ~is_authenticated(c)
              /\ InactiveOwners(e, p) # {}
              /\ Login(c, "POST", e, p)) =>
                 /\ session' = session
                 /\ log' = log
                 /\ <<"__all__", "inactive">> \in resp'.errors
                 /\ <<"__all__", "invalid_login">> \notin resp'.errors]_vars

(* C4: a POST to login from an unauthenticated browser with the email and *)
(* password of an active account appends exactly one entry, USER_LOGIN,   *)
(* owned by that user and timestamped after every earlier entry of that   *)
(* user; any other login request adds nothing, and no other request adds  *)
(* a USER_LOGIN entry.                                                    *)
C4_LoginAudited ==
    [][/\ resp'.op = "login" =>
             \A c \in Clients, m \in Methods, e \in Emails \cup {""},
                p \in Passwords \cup {""} :
                Login(c, m, e, p) =>
                   IF m = "POST" /\ ~is_authenticated(c)
                                 /\ ActiveOwners(e, p) # {}
                   THEN \E i \in ActiveOwners(e, p) :
                           /\ Len(log') = Len(log) + 1
                           /\ SubSeq(log', 1, Len(log)) = log
                           /\ log'[Len(log')].user = i
                           /\ log'[Len(log')].action = "USER_LOGIN"
                           /\ \A k \in 1..Len(log) :
                                 log[k].user = i =>
                                    log[k].timestamp < log'[Len(log')].timestamp
                           /\ session'[c] = i
                   ELSE log' = log
       /\ resp'.op # "login" =>
             \A k \in (Len(log) + 1)..Len(log') :
                log'[k].action # "USER_LOGIN"]_vars

(* The user of the last entry has just logged in, and has an earlier entry *)
C4_Witness ==
    /\ resp.op = "login"
    /\ resp.status = "redirect"
    /\ Len(log) >= 2
    /\ log[Len(log)].action = "USER_LOGIN"
    /\ \E c \in Clients : session[c] = log[Len(log)].user
    /\ \E k \in 1..(Len(log) - 1) : log[k].user = log[Len(log)].user

EmailTaken(f) == \E i \in UserIds : users[i].email = f.email
NationalIdTaken(f) == \E i \in UserIds : users[i].national_id = f.national_id

(* What a registration of form f must come to when f's email or national *)
(* ID is already stored *)
DuplicateRefused(f) ==
    /\ resp'.status = "render"
    /\ EmailTaken(f) => <<"email", "exists">> \in resp'.errors
    /\ NationalIdTaken(f) => <<"national_id", "exists">> \in resp'.errors
    /\ StoreUnchanged

(* C5: no two stored users share an email or a national ID, and a         *)
(* registration posted by an anonymous browser with the email or the      *)
(* national ID of a stored user is answered with the form and the error   *)
(* of that field, leaving users, groups, memberships and audit log as     *)
(* they were (no registration step that does otherwise is possible).      *)
C5_UniqueIdentity ==
    /\ \A i, j \in UserIds :
          i # j => /\ users[i].email # users[j].email
                   /\ users[i].national_id # users[j].national_id
    /\ \A c \in Clients, f \in RegisterForms :
          (/\ ~is_authenticated(c)
           /\ EmailTaken(f) \/ NationalIdTaken(f)) =>
              ~ENABLED (\E n \in EmpSuffixes :
                           Register(c, "POST", f, n) /\ ~DuplicateRefused(f))

(* Two users are stored and the last registration was refused for both its *)
(* email and its national ID                                               *)
C5_Witness ==
    /\ resp.op = "register"
    /\ resp.status = "render"
    /\ {<<"email", "exists">>, <<"national_id", "exists">>} \subseteq resp.errors
    /\ Len(users) = 2

(* C6: when a registration that passed is_valid() reaches its save() after *)
(* another request stored the same email or national ID, no second user   *)
(* is stored and the request is answered with the form and a validation   *)
(* error, not with an unhandled fault.                                    *)
C6_ConflictHandled ==
    [][\A c \in Clients :
          (/\ pending[c] # NoForm
           /\ pending'[c] = NoForm
           /\ EmailTaken(pending[c]) \/ NationalIdTaken(pending[c])) =>
              /\ users' = users
              /\ resp'.status = "render"
              /\ resp'.errors # {}]_vars

(* C7: with the audit table refusing INSERTs, a request that records an *)
(* audit entry is not answered with the fault of that INSERT.           *)
C7_AuditFailureSwallowed ==
    [][(/\ ~audit_up
        /\ resp'.op \in {"register", "login", "logout", "profile", "toggle"})
          => ~(resp'.status = "server_error"
               /\ resp'.target = "DatabaseError")]_vars

(* C8: every request leaves the audit entries that existed in place and *)
(* unchanged, adding at most new ones after them; the dashboard, the    *)
(* activity log and the user listing add none.                          *)
C8_AppendOnly ==
    [][/\ Len(log') >= Len(log)
       /\ SubSeq(log', 1, Len(log)) = log
       /\ resp'.op \in {"dashboard", "activity_log", "user_management"} =>
             log' = log]_vars

(* The activity log was just shown, with two or more of the caller's entries *)
C8_Witness ==
    /\ resp.op = "activity_log"
    /\ Len(resp.activities) >= 2
    /\ Len(log) >= 3

(* The user table without the user of email e *)
WithoutEmail(us, e) == SelectSeq(us, LAMBDA u : u.email # e)

(* C9: a login with a stored email and a password that is not that user's *)
(* comes to exactly what it comes to when no user has the email: the      *)
(* invalid-credentials error and flash message, no user logged in (so no  *)
(* session and no audit entry).                                           *)
C9_NoEnumeration ==
    \A e \in Emails, p \in Passwords :
       (\E i \in UserIds : /\ users[i].email = e
                           /\ users[i].password # make_password(p)) =>
          /\ LoginOutcome(users, e, p) =
                LoginOutcome(WithoutEmail(users, e), e, p)
          /\ LoginOutcome(users, e, p) =
                [user |-> 0, errors |-> {<<"__all__", "invalid_login">>},
                 messages |-> {"Invalid email or password."}]

(* Both emails belong to active users and the last login was refused: a *)
(* stored email with a wrong password                                   *)
C9_Witness ==
    /\ resp.op = "login"
    /\ resp.errors = {<<"__all__", "invalid_login">>}
    /\ Len(users) = 2
    /\ \A i \in UserIds : users[i].is_active

(* The group of each of the nine roles *)
RoleGroup(role) ==
    CASE role = "INITIATOR" -> "Initiators"
      [] role = "CHIEF_OFFICER" -> "Chief Officers"
      [] role = "COUNTY_SECRETARY" -> "County Secretaries"
      [] role = "CPSB_BOARD" -> "CPSB Board"
      [] role = "CPSB_SECRETARIAT" -> "CPSB Secretariat"
      [] role = "HR_SECRETARIAT" -> "HR Secretariat"
      [] role = "HR_ADMIN" -> "HR Administrators"
      [] role = "PANELIST" -> "Panelists"
      [] role = "PAYROLL_OFFICER" -> "Payroll Officers"

RegistrationSucceeded ==
    /\ resp'.op = "register"
    /\ resp'.status = "redirect"
    /\ resp'.target = "accounts:login"

(* C10: a registration answered with the success redirect stored one new  *)
(* user with the submitted role r, made that user a member of exactly the *)
(* group of r (the group exists afterwards) and appended exactly one      *)
(* entry, USER_REGISTERED, owned by the new user with payload role = r;   *)
(* any other answer to a registration leaves users, groups, memberships   *)
(* and audit log as they were.  A role outside the nine maps to           *)
(* 'Applicants'.                                                          *)
C10_RegistrationEffects ==
    [][/\ RegistrationSucceeded =>
             \A c \in Clients, f \in RegisterForms, n \in EmpSuffixes :
                Register(c, "POST", f, n) =>
                   LET uid == Len(users) + 1
                   IN  /\ Len(users') = uid
                       /\ SubSeq(users', 1, Len(users)) = users
                       /\ users'[uid].role = f.role
                       /\ users'[uid].email = f.email
                       /\ user_groups' =
                             user_groups \cup {<<uid, RoleGroup(f.role)>>}
                       /\ groups' = groups \cup {RoleGroup(f.role)}
                       /\ log' = Append(log,
                             [user |-> uid, action |-> "USER_REGISTERED",
                              timestamp |-> log'[Len(log')].timestamp,
                              data |-> {<<"role", f.role>>}])
       /\ (resp'.op = "register" /\ ~RegistrationSucceeded) => StoreUnchanged
       /\ get_role_group("APPLICANT") = "Applicants"]_vars

(* The second user has just registered as CPSB_SECRETARIAT and is in that *)
(* role's group *)
C10_Witness ==
    /\ resp.op = "register"
    /\ resp.target = "accounts:login"
    /\ Len(users) = 2
    /\ users[2].role = "CPSB_SECRETARIAT"
    /\ <<2, "CPSB Secretariat">> \in user_groups
    /\ log[Len(log)].action = "USER_REGISTERED"

(* C11: every stored user's phone number begins with '+254', '254', '07' *)
(* or '01' and has 9 to 12 digits (registration and profile update both  *)
(* refuse a phone that fails the rule).                                  *)
C11_PhoneRule ==
    \A i \in UserIds :
       LET phone == users[i].phone_number
       IN  /\ \/ SubSeq(phone, 1, 4) = <<"+", "2", "5", "4">>
              \/ SubSeq(phone, 1, 3) = <<"2", "5", "4">>
              \/ SubSeq(phone, 1, 2) = <<"0", "7">>
              \/ SubSeq(phone, 1, 2) = <<"0", "1">>
           /\ Cardinality({k \in 1..Len(phone) : phone[k] \in Digits})
                 \in 9..12

(* Case-insensitive substring test on the characters of two strings *)
IContains(hay, needle) ==
    LET Lower(ch) == IF ch = "A" THEN "a" ELSE ch
        h == Str(hay)
        n == Str(needle)
    IN  \E k \in 0..(Len(h) - Len(n)) :
           \A j \in 1..Len(n) : Lower(h[k + j]) = Lower(n[j])

(* C12: a user listing requested by an active HR_ADMIN or                 *)
(* CPSB_SECRETARIAT with text query q and role filter r is rendered and   *)
(* lists exactly the stored users whose first name, email or national ID  *)
(* contains q without regard to case (every user when q is empty) and     *)
(* whose role is r (any role when r is empty), newest-joined first.  The  *)
(* users of the model have no last name.                                  *)
C12_SearchResults ==
    [][resp'.op = "user_management" =>
          \A c \in Clients, r \in RoleFilters, q \in SearchInputs :
             (/\ role_required(c, AdminRoles) = "allow"
              /\ UserManagement(c, r, q)) =>
                 /\ resp'.status = "render"
                 /\ resp'.listing = OrderByDateJoinedDesc(
                       {i \in UserIds :
                           /\ r = "" \/ users[i].role = r
                           /\ \/ q = ""
                              \/ IContains(users[i].first_name, q)
                              \/ IContains(users[i].email, q)
                              \/ IContains(users[i].national_id, q)})]_vars

(* What a registration of form f must come to as far as its national ID *)
(* goes: an error on the field exactly when the ID is not 7 or 8 decimal *)
(* digits or is already stored, and then no user is created              *)
NationalIdJudged(f) ==
    LET id == Str(f.national_id)
        accepted == /\ Len(id) \in {7, 8}
                    /\ \A k \in 1..Len(id) : id[k] \in Digits
                    /\ ~NationalIdTaken(f)
    IN  /\ (\E e \in resp'.errors : e[1] = "national_id") <=> ~accepted
        /\ ~accepted => users' = users

(* C13: a registration posted by an anonymous browser gets a validation   *)
(* error on the national ID if and only if the ID is not made of exactly  *)
(* 7 or 8 decimal digits or is already stored, and then no user is        *)
(* created: '1234567' and '12345678' pass, '123456', '123456789' and      *)
(* '12A4567' are refused (no registration step that does otherwise is     *)
(* possible).                                                             *)
C13_NationalIdFormat ==
    /\ {f.national_id : f \in RegisterForms} =
          {"1234567", "12345678", "123456", "123456789", "12A4567"}
    /\ \A c \in Clients, f \in RegisterForms :
          ~is_authenticated(c) =>
             ~ENABLED (\E n \in EmpSuffixes :
                          Register(c, "POST", f, n) /\ ~NationalIdJudged(f))

(* A user is stored, and the last registration was refused because its *)
(* national ID has a letter in it                                       *)
C13_Witness ==
    /\ resp.op = "register"
    /\ resp.errors = {<<"national_id", "digits">>}
    /\ Len(users) >= 1

ToggleActions == {"USER_ACTIVATED", "USER_DEACTIVATED"}

(* C14: a POST toggle by an active HR_ADMIN or CPSB_SECRETARIAT on a      *)
(* stored user other than the actor flips that user's is_active and       *)
(* changes nothing else in the user table, the groups, the memberships or *)
(* the sessions, and appends exactly one entry, owned by the actor, with  *)
(* action USER_ACTIVATED when the new flag is true and USER_DEACTIVATED   *)
(* when it is false and the target's email as payload; when the entry     *)
(* before it records a toggle of the same target, the flag is back to     *)
(* what it was before that toggle.  A toggle on an id that is not stored, *)
(* or with a method other than POST, changes nothing and adds no entry.   *)
C14_ToggleFrame ==
    [][resp'.op = "toggle" =>
          \A c \in Clients, m \in Methods, t \in TargetIds :
             ToggleUserActive(c, m, t) =>
                LET actor == RequestUser(c)
                    last == Len(log) + 1
                    payload == {<<"target_user", users[t].email>>}
                IN  IF m # "POST" \/ t \notin UserIds
                    THEN StoreUnchanged /\ session' = session
                    ELSE (/\ role_required(c, AdminRoles) = "allow"
                          /\ t # actor) =>
                            /\ users' =
                                  [users EXCEPT ![t].is_active =
                                                    ~users[t].is_active]
                            /\ groups' = groups
                            /\ user_groups' = user_groups
                            /\ session' = session
                            /\ Len(log') = last
                            /\ SubSeq(log', 1, Len(log)) = log
                            /\ log'[last].user = actor
                            /\ log'[last].action =
                                  (IF users'[t].is_active
                                   THEN "USER_ACTIVATED"
                                   ELSE "USER_DEACTIVATED")
                            /\ log'[last].data = payload
                            /\ (/\ Len(log) > 0
                                /\ log[Len(log)].action \in ToggleActions
                                /\ log[Len(log)].data = payload) =>
                                  users'[t].is_active =
                                     (log[Len(log)].action =
                                         "USER_DEACTIVATED")]_vars

(* Two toggles of the same user in a row have just been answered: the *)
(* user was deactivated, then activated again                          *)
C14_Witness ==
    /\ resp.op = "toggle"
    /\ Len(log) >= 2
    /\ log[Len(log) - 1].action = "USER_DEACTIVATED"
    /\ log[Len(log)].action = "USER_ACTIVATED"
    /\ log[Len(log)].data = log[Len(log) - 1].data
    /\ \E i \in UserIds : /\ log[Len(log)].data =
                               {<<"target_user", users[i].email>>}
                          /\ users[i].is_active
                          /\ log[Len(log)].user # i

AdminActive ==
    \E i \in UserIds : users[i].role \in AdminRoles /\ users[i].is_active

(* C15: no step takes the store from having an active HR_ADMIN or         *)
(* CPSB_SECRETARIAT account to having none, whether toggles run one at a  *)
(* time or interleave, unless the role guard is at that moment admitting  *)
(* a browser whose session belongs to a deactivated account.              *)
C15_NoLockout ==
    [][AdminActive =>
          \/ AdminActive'
          \/ \E c \in Clients :
                /\ session[c] # 0
                /\ ~users[session[c]].is_active
                /\ role_required(c, AdminRoles) = "allow"]_vars

====
